---- MODULE Spec2Model ----
(***************************************************************************)
(* captcha-http-service: the recognition pipeline of app.py (Flask, one    *)
(* worker thread per request, engine singleton behind _ocr_lock, engine    *)
(* calls behind _ocr_semaphore) and of server.py (single-threaded          *)
(* HTTPServer, no lock, no semaphore).                                     *)
(*                                                                         *)
(* Strings are sequences of one-character strings, byte buffers sequences  *)
(* of integers 0..255.                                                     *)
(***************************************************************************)
EXTENDS Integers, Sequences, FiniteSets, TLC

(***************************************************************************)
(* Bounds of the model and configuration                                   *)
(***************************************************************************)

\* Number of /recognize requests (one worker thread each) that arrive.
NumRequests == 2

\* OCR_CONCURRENCY of the modelled process (app.py:35, read from the
\* environment; 4 as shipped).
OCR_CONCURRENCY == 1

\* MAX_CONTENT_LENGTH of the modelled process, in bytes: the limit on the
\* request body and on the decoded image (app.py:34 and 44, server.py:32;
\* 10 MiB as shipped).
MAX_CONTENT_LENGTH == 30

\* How many times the engine constructor may fail in one run.
MaxCtorFailures == 1

\* How many requests the single-threaded server.py handles in one run.
MaxServed == 2

\* The length guard of both entry points: len(base64_str) < 10.
MIN_BASE64_LEN == 10

(***************************************************************************)
(* Text helpers                                                            *)
(***************************************************************************)

\* n copies of the character c
Rep(c, n) == [i \in 1..n |-> c]

Whitespace == {" ", "\n", "\t"}

RECURSIVE lstrip(_)
lstrip(s) ==
    IF s # <<>> /\ Head(s) \in Whitespace THEN lstrip(Tail(s)) ELSE s

RECURSIVE rstrip(_)
rstrip(s) ==
    IF s # <<>> /\ s[Len(s)] \in Whitespace
    THEN rstrip(SubSeq(s, 1, Len(s) - 1))
    ELSE s

\* str.strip()
strip(s) == rstrip(lstrip(s))

\* The index of the first comma of s, 0 when s holds none.
FirstComma(s) ==
    IF \E i \in 1..Len(s) : s[i] = ","
    THEN CHOOSE i \in 1..Len(s) : s[i] = "," /\ \A j \in 1..(i - 1) : s[j] # ","
    ELSE 0

\* The index of the last comma of s, 0 when s holds none.
LastComma(s) ==
    IF \E i \in 1..Len(s) : s[i] = ","
    THEN CHOOSE i \in 1..Len(s) : s[i] = "," /\ \A j \in (i + 1)..Len(s) : s[j] # ","
    ELSE 0

\* A header removal that cuts at the last comma (rsplit for split).
remove_base64_header_LastComma(s) ==
    IF LastComma(s) # 0 THEN SubSeq(s, LastComma(s) + 1, Len(s)) ELSE s

\* remove_base64_header: base64_str.split(',', 1)[1] when a comma is present
remove_base64_header(s) ==
    IF FirstComma(s) # 0 THEN SubSeq(s, FirstComma(s) + 1, Len(s)) ELSE s

\* app.py validate_base64
validate_base64(base64_str) ==
    LET pure_str == remove_base64_header(strip(base64_str))
        padding  == Len(pure_str) % 4
    IN  IF padding # 0 THEN pure_str \o Rep("=", 4 - padding) ELSE pure_str

\* server.py's validate_base64 without the test missing_padding != 4.
server_validate_base64_NoFourCheck(base64_str) ==
    LET pure_base64     == remove_base64_header(strip(base64_str))
        missing_padding == 4 - (Len(pure_base64) % 4)
    IN  IF missing_padding # 0
        THEN pure_base64 \o Rep("=", missing_padding)
        ELSE pure_base64

\* server.py validate_base64
server_validate_base64(base64_str) ==
    LET pure_base64     == remove_base64_header(strip(base64_str))
        missing_padding == 4 - (Len(pure_base64) % 4)
    IN  IF missing_padding # 0 /\ missing_padding # 4
        THEN pure_base64 \o Rep("=", missing_padding)
        ELSE pure_base64

(***************************************************************************)
(* base64.b64decode (validate=False), as binascii.a2b_base64 computes it   *)
(***************************************************************************)

B64Alphabet ==
    << "A","B","C","D","E","F","G","H","I","J","K","L","M","N","O","P",
       "Q","R","S","T","U","V","W","X","Y","Z","a","b","c","d","e","f",
       "g","h","i","j","k","l","m","n","o","p","q","r","s","t","u","v",
       "w","x","y","z","0","1","2","3","4","5","6","7","8","9","+","/" >>

B64Chars == { B64Alphabet[i] : i \in 1..64 }

IsB64Char(c) == c \in B64Chars

\* table_a2b_base64: the 6-bit value of each character of the alphabet
B64Table ==
    [c \in B64Chars |-> (CHOOSE i \in 1..64 : B64Alphabet[i] = c) - 1]

B64Val(c) == B64Table[c]

\* One pass over the characters: characters outside the alphabet are
\* skipped, '=' ends the input once it completes a quad, every data
\* character feeds the 6-bit accumulator.  ok is FALSE when a quad is left
\* incomplete (binascii.Error).
RECURSIVE a2b_base64(_, _, _, _, _, _)
a2b_base64(s, i, quad_pos, pads, leftchar, out) ==
    IF i > Len(s)
    THEN [ok |-> quad_pos = 0, bytes |-> IF quad_pos = 0 THEN out ELSE <<>>]
    ELSE IF s[i] = "="
         THEN IF quad_pos >= 2 /\ quad_pos + pads + 1 >= 4
              THEN [ok |-> TRUE, bytes |-> out]
              ELSE a2b_base64(s, i + 1, quad_pos,
                              IF quad_pos >= 2 THEN pads + 1 ELSE pads,
                              leftchar, out)
         ELSE IF ~IsB64Char(s[i])
              THEN a2b_base64(s, i + 1, quad_pos, pads, leftchar, out)
              ELSE LET v == B64Val(s[i])
                   IN  CASE quad_pos = 0 ->
                              a2b_base64(s, i + 1, 1, 0, v, out)
                         [] quad_pos = 1 ->
                              a2b_base64(s, i + 1, 2, 0, v % 16,
                                         Append(out, (leftchar * 4) + (v \div 16)))
                         [] quad_pos = 2 ->
                              a2b_base64(s, i + 1, 3, 0, v % 4,
                                         Append(out, (leftchar * 16) + (v \div 4)))
                         [] OTHER ->
                              a2b_base64(s, i + 1, 0, 0, 0,
                                         Append(out, (leftchar * 64) + v))

b64decode(s) == a2b_base64(s, 1, 0, 0, 0, <<>>)

\* Image.open identifies a raster format by the buffer's signature; the
\* model knows one signature, the first byte of PNG's (0x89).
IsRaster(bytes) == Len(bytes) > 0 /\ bytes[1] = 137

(***************************************************************************)
(* Image decoding                                                          *)
(***************************************************************************)

\* What a decoding call hands back: an image (its buffer), something that
\* is no image, or a raised exception; events lists the library calls made
\* on the way, in order.
Image(bytes, events) ==
    [kind |-> "image", data |-> bytes, exc |-> "", msg |-> "", events |-> events]

Raise(exc, msg, events) ==
    [kind |-> "raise", data |-> <<>>, exc |-> exc, msg |-> msg, events |-> events]

\* ddddocr.base64_to_image, the engine package's own decoder:
\* Image.open(io.BytesIO(base64.b64decode(s))), with no size limit.
base64_to_image(pure_base64) ==
    LET d == b64decode(pure_base64)
    IN  IF ~d.ok
        THEN Raise("binascii.Error", "", <<"fast:b64decode">>)
        ELSE IF IsRaster(d.bytes)
             THEN Image(d.bytes, <<"fast:b64decode", "fast:parse">>)
             ELSE Raise("UnidentifiedImageError", "",
                        <<"fast:b64decode", "fast:parse">>)

\* if len(img_bytes) > MAX_CONTENT_LENGTH
TooLarge(img_bytes) == Len(img_bytes) > MAX_CONTENT_LENGTH

\* The fallback of decode_base64_to_image: base64.b64decode, the size
\* check, Image.open; pre holds the events of the fast path before it.
DecodeFallback(pure_base64, pre) ==
    LET d == b64decode(pure_base64)
    IN  IF ~d.ok
        THEN Raise("ValueError", "invalid_base64", pre \o <<"b64decode">>)
        ELSE IF TooLarge(d.bytes)
             THEN Raise("ValueError", "too_large",
                        pre \o <<"b64decode", "size_check">>)
             ELSE IF IsRaster(d.bytes)
                  THEN Image(d.bytes,
                             pre \o <<"b64decode", "size_check", "parse">>)
                  ELSE Raise("ValueError", "unsupported_format",
                             pre \o <<"b64decode", "size_check", "parse">>)

\* Whether the fast path of decode_base64_to_image is taken: ddddocr was
\* imported and has base64_to_image.
HasFastPath(dd) == dd = "full"

\* app.py decode_base64_to_image, dd the state of the ddddocr import
decode_base64_to_image(pure_base64, dd) ==
    IF HasFastPath(dd)
    THEN LET fast == base64_to_image(pure_base64)
         IN  IF fast.kind = "image"
             THEN fast
             ELSE DecodeFallback(pure_base64, fast.events)
    ELSE DecodeFallback(pure_base64, <<>>)

(***************************************************************************)
(* Requests, responses, the engine                                         *)
(***************************************************************************)

\* n base64 characters that decode to a buffer with the raster signature
Png(n) == <<"i", "V">> \o Rep("A", n - 2)

\* n base64 characters that decode to a buffer without it
Txt(n) == Rep("A", n)

\* The number of base64 characters, padding left off, that encode n bytes.
CharsFor(n) == ((n \div 3) * 4) + (IF n % 3 = 0 THEN 0 ELSE (n % 3) + 1)

\* The values of the "base64" field the requests carry.
RawSamples ==
    { <<>>,                                   \* the empty string
      Png(9),                                 \* one character short
      <<"d", ",">> \o Png(8),                 \* 10 characters, header, 6 bytes
      Png(10),                                \* two padding characters missing
      Png(11),                                \* padding missing, 8 bytes
      <<"d", ",", " ">> \o Png(8),            \* header, then a blank
      <<"d", ",">> \o Png(11) \o <<" ">>,     \* header, a blank at the end
      Png(12),                                \* 9 bytes, a raster image
      Txt(12),                                \* 9 bytes, no raster image
      Png(13),                                \* no valid base64
      <<" ">> \o Png(12) \o <<"\n">>,         \* surrounding whitespace
      Png(8) \o <<"@", "@">>,                 \* characters off the alphabet
      <<"d", ",">> \o Png(4) \o <<",">> \o Png(4),   \* a second comma
      Png(CharsFor(MAX_CONTENT_LENGTH)),      \* an image of the maximum size
      Png(CharsFor(MAX_CONTENT_LENGTH + 1)),  \* an image one byte larger
      Txt(CharsFor(MAX_CONTENT_LENGTH + 1)) } \* as large, no raster image

\* A request: what kind of request it is, and the value of the "base64"
\* field when that is a string (kind "str").
Req(kind, raw) == [kind |-> kind, raw |-> raw]

\* The requests app.py's /recognize is sent: an OPTIONS preflight, a body
\* that is not declared JSON, a body that is no JSON, a body without the
\* field, a field that is a number, a field that is a string.
Inputs ==
    { Req(k, <<>>) : k \in {"options", "not_json", "bad_json", "no_data",
                            "no_field", "number"} }
    \cup { Req("str", s) : s \in RawSamples }

\* The length of the body {"base64":"<raw>"}: 13 characters around raw.
BodyLength(q) == Len(q.raw) + 13

\* The JSON bodies jsonify_error and the success path build, the empty 200
\* of the OPTIONS branch, and the framework's answer to an exception that
\* leaves the handler.
Fail(status_code, message) ==
    [body |-> "json", success |-> FALSE, code |-> status_code,
     msg |-> message, captcha |-> <<>>, length |-> 0]

Success(result_text) ==
    [body |-> "json", success |-> TRUE, code |-> 200, msg |-> "ok",
     captcha |-> result_text, length |-> Len(result_text)]

Preflight ==
    [body |-> "empty", success |-> TRUE, code |-> 200, msg |-> "preflight",
     captcha |-> <<>>, length |-> 0]

Unhandled(exc) ==
    [body |-> "traceback", success |-> FALSE, code |-> 500, msg |-> exc,
     captcha |-> <<>>, length |-> 0]

\* What ocr.classification hands back or raises.
EngineResult(isNone, text) == [isNone |-> isNone, text |-> text]

EngineResults ==
    { EngineResult(TRUE, <<>>),
      EngineResult(FALSE, <<>>),
      EngineResult(FALSE, <<"a", "-", "7", " ", "Z">>) }

Returns(value) == [kind |-> "return", result |-> value, exc |-> ""]

Raises(exc) == [kind |-> "raise", result |-> EngineResult(TRUE, <<>>), exc |-> exc]

Alnum == { B64Alphabet[i] : i \in 1..62 }

IsAlnum(c) == c \in Alnum

\* ''.join(re.findall(r'[A-Za-z0-9]', s))
RECURSIVE KeepAlnum(_)
KeepAlnum(s) ==
    IF s = <<>> THEN <<>>
    ELSE IF IsAlnum(Head(s)) THEN <<Head(s)>> \o KeepAlnum(Tail(s))
         ELSE KeepAlnum(Tail(s))

\* app.py: str(result or '')
StrOrEmpty(raw_result) == IF raw_result.isNone THEN <<>> ELSE raw_result.text

EngineOutcomes ==
    { Returns(x) : x \in EngineResults }
    \cup { Raises("TypeError"), Raises("Exception") }

(***************************************************************************)
(* app.py: state                                                           *)
(***************************************************************************)

VARIABLES
    entry,          \* the entry point the process runs: "app.py", "server.py"
    ddddocr,        \* the import of lines 23-26: "missing", "no_helper", "full"
    ocr_instance,   \* _ocr_instance: 0 for None, else the handle constructed
    ocr_lock,       \* _ocr_lock: the set of threads holding it
    ocr_semaphore,  \* _ocr_semaphore: its counter, the free slots
    pc,             \* where each thread stands
    req,            \* each request's input
    pure,           \* each request's local pure: what validate_base64 returned
    img,            \* each request's decoded image (its buffer), <<>> before
    ocr,            \* each thread's local ocr: the handle get_ocr returned
    result,         \* each request's local result: what the engine returned
    resp,           \* the responses each request has produced, in order
    trace,          \* what each thread has done so far, in order
    acquired,       \* how often each request acquired a slot
    released,       \* how often each request released a slot
    ctor_calls,     \* how often ddddocr.DdddOcr() was entered
    ctor_failed     \* how often it raised

appVars == << entry, ddddocr, ocr_instance, ocr_lock, ocr_semaphore, pc, req, pure,
              img, ocr, result, resp, trace, acquired, released, ctor_calls, ctor_failed >>

(***************************************************************************)
(* server.py: state.  HTTPServer handles one request at a time, so the     *)
(* state holds one request: the one in hand, or the last one answered.     *)
(***************************************************************************)

VARIABLES
    sv_instance,    \* _ocr_instance: 0 for None, else the handle constructed
    sv_pc,          \* "idle" between requests, else where do_POST stands
    sv_req,         \* the request in hand
    sv_pure,        \* its local pure_base64: what validate_base64 returned
    sv_img,         \* its decoded image (its buffer)
    sv_result,      \* its local result: what the engine returned
    sv_resp,        \* the responses written for it, in order
    sv_trace,       \* what do_POST has done for it, in order
    sv_served,      \* how many requests were taken in
    sv_ctor_calls,  \* how often ddddocr.DdddOcr() was entered
    sv_ctor_failed  \* how often it raised

svVars == << sv_instance, sv_pc, sv_req, sv_pure, sv_img, sv_result, sv_resp, sv_trace, sv_served,
             sv_ctor_calls, sv_ctor_failed >>

vars == << appVars, svVars >>

Requests == 1..NumRequests

\* The local result of a request before a call of the engine has returned.
NoResult == EngineResult(TRUE, <<>>)

\* The prewarm thread of lines 301-310.
Prewarm == 0

Threads == {Prewarm} \cup Requests

\* What every run starts from, the import and the requests' inputs apart.
InitProcess ==
    /\ ocr_instance = 0
    /\ ocr_lock = {}
    /\ ocr_semaphore = OCR_CONCURRENCY
    /\ pc = [t \in Threads |-> IF t = Prewarm THEN "get_ocr" ELSE "start"]
    /\ pure = [r \in Requests |-> <<>>]
    /\ img = [r \in Requests |-> <<>>]
    /\ ocr = [t \in Threads |-> 0]
    /\ result = [r \in Requests |-> NoResult]
    /\ resp = [r \in Requests |-> <<>>]
    /\ trace = [t \in Threads |-> <<>>]
    /\ acquired = [r \in Requests |-> 0]
    /\ released = [r \in Requests |-> 0]
    /\ ctor_calls = 0
    /\ ctor_failed = 0

\* server.py before its first request.
InitServer ==
    /\ sv_instance = 0
    /\ sv_pc = "idle"
    /\ sv_req = Req("none", <<>>)
    /\ sv_pure = <<>>
    /\ sv_img = <<>>
    /\ sv_result = NoResult
    /\ sv_resp = <<>>
    /\ sv_trace = <<>>
    /\ sv_served = 0
    /\ sv_ctor_calls = 0
    /\ sv_ctor_failed = 0

\* The inputs of the requests that compete for the engine: one that is
\* turned away before it and one that reaches it.
ConcInputs == { Req("str", Png(9)), Req("str", Png(12)) }

\* Concurrent load: every request carries one of ConcInputs.
Init ==
    /\ entry = "app.py"
    /\ InitProcess
    /\ InitServer
    /\ ddddocr \in {"missing", "full"}
    /\ req \in [Requests -> ConcInputs]

\* app.py with one recognition request, carrying any of Inputs; the other
\* requests are CORS preflights, which touch nothing shared.
InitAppPipe ==
    /\ entry = "app.py"
    /\ ddddocr \in {"missing", "no_helper", "full"}
    /\ req \in { f \in [Requests -> Inputs] :
                   \A r \in Requests \ {1} : f[r] = Req("options", <<>>) }

\* server.py, which imports ddddocr unconditionally; no app.py request.
InitSvPipe ==
    /\ entry = "server.py"
    /\ ddddocr = "full"
    /\ req = [r \in Requests |-> Req("options", <<>>)]

\* Either entry point, one request at a time.
InitPipe ==
    /\ InitProcess
    /\ InitServer
    /\ InitAppPipe \/ InitSvPipe

(***************************************************************************)
(* app.py: recognize up to the engine (lines 193-223)                      *)
(***************************************************************************)

\* A guard that also turns away a string of exactly 10 characters.
TooShort_OffByOne(base64_str) ==
    base64_str = <<>> \/ Len(base64_str) <= MIN_BASE64_LEN

\* if not base64_str or len(base64_str) < 10
TooShort(base64_str) == base64_str = <<>> \/ Len(base64_str) < MIN_BASE64_LEN

\* The handlers around the decoding: ValueError -> 400 with its message,
\* anything else -> 500.
DecodeFailure(d) ==
    IF d.exc = "ValueError" THEN Fail(400, d.msg) ELSE Fail(500, "decode_failed")

\* recognize without its last handler: the exception leaves the handler.
OuterExcept_Missing(exc) == Unhandled(exc)

\* except Exception at the end of recognize
OuterExcept(exc) == Fail(500, "internal")

\* The handler's way through lines 193-223 on request q: the response it
\* returns there (resp, empty when it goes on to the engine), the image,
\* and what it did.  limited tells whether request.get_json() refuses a body
\* longer than app.config['MAX_CONTENT_LENGTH'] (RequestEntityTooLarge,
\* which the installed Werkzeug raises or not).
Front(q, dd, limited) ==
    LET outp(r, p, i, e) ==
            [resp |-> r, pure |-> p, img |-> i, events |-> <<"t0">> \o e]
        out(r, i, e) == outp(r, <<>>, i, e)
    IN  CASE q.kind = "options"  -> out(<<Preflight>>, <<>>, <<>>)
          [] q.kind = "not_json" -> out(<<Fail(400, "not_json")>>, <<>>, <<>>)
          [] q.kind = "bad_json" -> out(<<OuterExcept("BadRequest")>>, <<>>, <<>>)
          [] q.kind = "no_data"  -> out(<<Fail(400, "no_field")>>, <<>>, <<>>)
          [] q.kind = "no_field" -> out(<<Fail(400, "no_field")>>, <<>>, <<>>)
          [] q.kind = "number"   -> out(<<OuterExcept("TypeError")>>, <<>>, <<>>)
          [] OTHER ->
               IF limited /\ BodyLength(q) > MAX_CONTENT_LENGTH
               THEN out(<<OuterExcept("RequestEntityTooLarge")>>, <<>>, <<>>)
               ELSE IF TooShort(q.raw)
               THEN out(<<Fail(400, "too_short")>>, <<>>, <<"validate">>)
               ELSE LET p == validate_base64(q.raw)
                        d == decode_base64_to_image(p, dd)
                        e == <<"validate", "decode">> \o d.events
                    IN  IF d.kind = "image"
                        THEN outp(<<>>, p, d.data, e)
                        ELSE outp(<<DecodeFailure(d)>>, p, <<>>, e)

\* Front, tabulated over the inputs and the states of the import.
FrontOf ==
    [q \in Inputs, dd \in {"missing", "no_helper", "full"}, limited \in BOOLEAN |->
       Front(q, dd, limited)]

Start(r) ==
    /\ entry = "app.py"
    /\ pc[r] = "start"
    /\ \E limited \in BOOLEAN :
       LET f == FrontOf[req[r], ddddocr, limited]
       IN  /\ resp' = [resp EXCEPT ![r] = f.resp]
           /\ pure' = [pure EXCEPT ![r] = f.pure]
           /\ img' = [img EXCEPT ![r] = f.img]
           /\ trace' = [trace EXCEPT ![r] = f.events]
           /\ pc' = [pc EXCEPT ![r] = IF f.resp = <<>> THEN "get_ocr" ELSE "done"]
    /\ UNCHANGED << result, entry, ddddocr, ocr_instance, ocr_lock, ocr_semaphore, req, ocr,
                    acquired, released, ctor_calls, ctor_failed >>
    /\ UNCHANGED svVars

(***************************************************************************)
(* app.py: get_ocr (lines 64-73), called by requests and by the prewarm    *)
(* thread                                                                  *)
(***************************************************************************)

\* get_ocr without mutual exclusion, as server.py's get_ocr is.
LockAcquirable_NoMutex == TRUE

\* with _ocr_lock: the lock can be taken when no thread holds it
LockAcquirable == ocr_lock = {}

\* if _ocr_instance is None
NeedsConstruction == ocr_instance = 0

\* A request that answers the exception out of get_ocr and goes on to the
\* engine all the same (the handler's return left out).
GetOcrRaised_GoesOn(t) ==
    /\ pc' = [pc EXCEPT ![t] = IF t = Prewarm THEN "done" ELSE "wait_sem"]
    /\ trace' = [trace EXCEPT ![t] = @ \o <<"get_ocr:raise">>]
    /\ resp' = IF t = Prewarm THEN resp
               ELSE [resp EXCEPT ![t] = <<Fail(500, "ocr_init")>>]

\* What a thread does with an exception out of get_ocr: a request answers
\* 500 (lines 228-230), the prewarm thread logs and ends (lines 306-307).
GetOcrRaised(t) ==
    /\ pc' = [pc EXCEPT ![t] = "done"]
    /\ trace' = [trace EXCEPT ![t] = @ \o <<"get_ocr:raise">>]
    /\ resp' = IF t = Prewarm THEN resp
               ELSE [resp EXCEPT ![t] = <<Fail(500, "ocr_init")>>]

\* The thread enters the with block.
LockAcquire(t) ==
    /\ entry = "app.py"
    /\ pc[t] = "get_ocr"
    /\ LockAcquirable
    /\ ocr_lock' = ocr_lock \cup {t}
    /\ pc' = [pc EXCEPT ![t] = "locked"]
    /\ trace' = [trace EXCEPT ![t] = @ \o <<"get_ocr">>]
    /\ UNCHANGED << pure, result, entry, ddddocr, ocr_instance, ocr_semaphore, req, img, ocr, resp,
                    acquired, released, ctor_calls, ctor_failed >>
    /\ UNCHANGED svVars

\* Inside the lock: the instance exists (leave the block), ddddocr is
\* missing (RuntimeError), or the constructor is entered.
LockedCheck(t) ==
    /\ entry = "app.py"
    /\ pc[t] = "locked"
    /\ IF ~NeedsConstruction
       THEN /\ ocr_lock' = ocr_lock \ {t}
            /\ pc' = [pc EXCEPT ![t] = "return"]
            /\ UNCHANGED << trace, resp, ctor_calls >>
       ELSE IF ddddocr = "missing"
            THEN /\ ocr_lock' = ocr_lock \ {t}
                 /\ GetOcrRaised(t)
                 /\ UNCHANGED ctor_calls
            ELSE /\ ctor_calls' = ctor_calls + 1
                 /\ pc' = [pc EXCEPT ![t] = "constructing"]
                 /\ trace' = [trace EXCEPT ![t] = @ \o <<"construct">>]
                 /\ UNCHANGED << ocr_lock, resp >>
    /\ UNCHANGED << pure, result, entry, ddddocr, ocr_instance, ocr_semaphore, req, img, ocr,
                    acquired, released, ctor_failed >>
    /\ UNCHANGED svVars

\* A constructor result that never reaches the global (the assignment
\* binds a local name).
ConstructOk_Unassigned(t) ==
    /\ entry = "app.py"
    /\ pc[t] = "constructing"
    /\ ocr_lock' = ocr_lock \ {t}
    /\ pc' = [pc EXCEPT ![t] = "return"]
    /\ UNCHANGED << pure, result, entry, ddddocr, ocr_instance, ocr_semaphore, req, img, ocr,
                    resp, trace, acquired, released, ctor_calls, ctor_failed >>
    /\ UNCHANGED svVars

\* A construction after which the thread goes on with the lock still held
\* (acquire() with no release on the way out).
ConstructOk_LockKept(t) ==
    /\ entry = "app.py"
    /\ pc[t] = "constructing"
    /\ ocr_instance' = ctor_calls
    /\ pc' = [pc EXCEPT ![t] = "return"]
    /\ UNCHANGED << pure, result, entry, ddddocr, ocr_lock, ocr_semaphore, req, img, ocr, resp,
                    trace, acquired, released, ctor_calls, ctor_failed >>
    /\ UNCHANGED svVars

\* ddddocr.DdddOcr() returns: the instance is assigned, the block left.
ConstructOk(t) ==
    /\ entry = "app.py"
    /\ pc[t] = "constructing"
    /\ ocr_instance' = ctor_calls
    /\ ocr_lock' = ocr_lock \ {t}
    /\ pc' = [pc EXCEPT ![t] = "return"]
    /\ UNCHANGED << pure, result, entry, ddddocr, ocr_semaphore, req, img, ocr, resp, trace,
                    acquired, released, ctor_calls, ctor_failed >>
    /\ UNCHANGED svVars

\* A failed construction that leaves the lock held (acquire() with no
\* release on the exception's way out).
ConstructFails_LockHeld(t) ==
    /\ entry = "app.py"
    /\ pc[t] = "constructing"
    /\ ctor_failed < MaxCtorFailures
    /\ ctor_failed' = ctor_failed + 1
    /\ ocr_lock' = ocr_lock
    /\ GetOcrRaised(t)
    /\ UNCHANGED << pure, result, entry, ddddocr, ocr_instance, ocr_semaphore, req, img, ocr,
                    acquired, released, ctor_calls >>
    /\ UNCHANGED svVars

\* ddddocr.DdddOcr() raises: the block is left by the exception.
ConstructFails(t) ==
    /\ entry = "app.py"
    /\ pc[t] = "constructing"
    /\ ctor_failed < MaxCtorFailures
    /\ ctor_failed' = ctor_failed + 1
    /\ ocr_lock' = ocr_lock \ {t}
    /\ GetOcrRaised(t)
    /\ UNCHANGED << pure, result, entry, ddddocr, ocr_instance, ocr_semaphore, req, img, ocr,
                    acquired, released, ctor_calls >>
    /\ UNCHANGED svVars

\* return _ocr_instance, read after the block
GetOcrReturn(t) ==
    /\ entry = "app.py"
    /\ pc[t] = "return"
    /\ ocr' = [ocr EXCEPT ![t] = ocr_instance]
    /\ pc' = [pc EXCEPT ![t] = IF t = Prewarm THEN "done" ELSE "wait_sem"]
    /\ trace' = [trace EXCEPT ![t] = @ \o <<"get_ocr:return">>]
    /\ UNCHANGED << pure, result, entry, ddddocr, ocr_instance, ocr_lock, ocr_semaphore, req, img,
                    resp, acquired, released, ctor_calls, ctor_failed >>
    /\ UNCHANGED svVars

(***************************************************************************)
(* app.py: the guarded engine calls (lines 232-248) and the result         *)
(* (lines 250-267)                                                         *)
(***************************************************************************)

\* A semaphore that admits one request too many.
SemAcquirable_OffByOne == ocr_semaphore >= 0

\* with _ocr_semaphore: acquire() goes through when the counter is positive
SemAcquirable == ocr_semaphore > 0

\* BoundedSemaphore.release(): the counter after it; a release beyond the
\* initial value raises ValueError and leaves the counter.
SemReleaseOk(v) == v < OCR_CONCURRENCY

\* A guarded region that is left without release().
SemRelease_Leak(v) == v

\* A release() that gives back two slots.
SemRelease_Twice(v) == v + 2

SemRelease(v) == IF SemReleaseOk(v) THEN v + 1 ELSE v

\* The response on the success path: the alphanumeric characters of
\* str(result or '') and their number.
PostProcess(raw_result) == Success(KeepAlnum(StrOrEmpty(raw_result)))

\* except Exception inside the with block: return jsonify_error(500, ...)
EngineFailure(exc) == Fail(500, "engine")

\* A fallback that is taken on any exception of the call.
FallsBack_AnyException(exc) == TRUE

\* except TypeError: the next call form is tried on TypeError alone
FallsBack(exc) == exc = "TypeError"

\* How a call of ocr.classification ended, as the trace records it:
\* "returned", or the exception raised.
Ended(o) == IF o.kind = "return" THEN "returned" ELSE o.exc

\* The request enters the with block and makes the first call,
\* ocr.classification(img=img).
Acquire(r) ==
    /\ entry = "app.py"
    /\ pc[r] = "wait_sem"
    /\ SemAcquirable
    /\ ocr_semaphore' = ocr_semaphore - 1
    /\ acquired' = [acquired EXCEPT ![r] = @ + 1]
    /\ pc' = [pc EXCEPT ![r] = "call_img"]
    /\ trace' = [trace EXCEPT ![r] = @ \o <<"acquire", "call:img">>]
    /\ UNCHANGED << pure, result, entry, ddddocr, ocr_instance, ocr_lock, req, img, ocr, resp,
                    released, ctor_calls, ctor_failed >>
    /\ UNCHANGED svVars

\* A region whose end timestamp is taken inside it, before the release.
Leave_TimedInside(r, answer, o, events) ==
    /\ ocr_semaphore' = SemRelease(ocr_semaphore)
    /\ released' = [released EXCEPT ![r] = @ + 1]
    /\ resp' = [resp EXCEPT ![r] = <<answer>>]
    /\ result' = IF o.kind = "return" THEN [result EXCEPT ![r] = o.result]
                  ELSE result
    /\ trace' = [trace EXCEPT ![r] = @ \o <<Ended(o)>> \o events \o <<"release">>]
    /\ pc' = [pc EXCEPT ![r] = "done"]

\* The request leaves the with block with response answer (the return of
\* line 248, or falling out of the block to lines 250-267): the slot is
\* released on the way out.
Leave(r, answer, o, events) ==
    /\ ocr_semaphore' = SemRelease(ocr_semaphore)
    /\ released' = [released EXCEPT ![r] = @ + 1]
    /\ resp' = [resp EXCEPT ![r] =
                  IF SemReleaseOk(ocr_semaphore) THEN <<answer>>
                  ELSE <<OuterExcept("ValueError")>>]
    /\ result' = IF o.kind = "return" THEN [result EXCEPT ![r] = o.result]
                  ELSE result
    /\ trace' = [trace EXCEPT ![r] = @ \o <<Ended(o), "release">> \o events]
    /\ pc' = [pc EXCEPT ![r] = "done"]

\* ocr.classification(img=img) ends.
CallImg(r) ==
    /\ entry = "app.py"
    /\ pc[r] = "call_img"
    /\ \E o \in EngineOutcomes :
         IF o.kind = "return"
         THEN Leave(r, PostProcess(o.result), o, <<"t1", "post">>)
         ELSE IF FallsBack(o.exc)
              THEN /\ pc' = [pc EXCEPT ![r] = "call_bytes"]
                   /\ trace' = [trace EXCEPT ![r] =
                                  @ \o <<Ended(o), "encode_png", "call:img_bytes">>]
                   /\ UNCHANGED << ocr_semaphore, released, resp, result >>
              ELSE Leave(r, EngineFailure(o.exc), o, <<>>)
    /\ UNCHANGED << pure, entry, ddddocr, ocr_instance, ocr_lock, req, img, ocr, acquired,
                    ctor_calls, ctor_failed >>
    /\ UNCHANGED svVars

\* ocr.classification(img_bytes=img_bytes) ends.
CallBytes(r) ==
    /\ entry = "app.py"
    /\ pc[r] = "call_bytes"
    /\ \E o \in EngineOutcomes :
         IF o.kind = "return"
         THEN Leave(r, PostProcess(o.result), o, <<"t1", "post">>)
         ELSE IF FallsBack(o.exc)
              THEN /\ pc' = [pc EXCEPT ![r] = "call_img_again"]
                   /\ trace' = [trace EXCEPT ![r] = @ \o <<Ended(o), "call:img">>]
                   /\ UNCHANGED << ocr_semaphore, released, resp, result >>
              ELSE Leave(r, EngineFailure(o.exc), o, <<>>)
    /\ UNCHANGED << pure, entry, ddddocr, ocr_instance, ocr_lock, req, img, ocr, acquired,
                    ctor_calls, ctor_failed >>
    /\ UNCHANGED svVars

\* The second ocr.classification(img=img), of line 245, ends.
CallImgAgain(r) ==
    /\ entry = "app.py"
    /\ pc[r] = "call_img_again"
    /\ \E o \in EngineOutcomes :
         IF o.kind = "return"
         THEN Leave(r, PostProcess(o.result), o, <<"t1", "post">>)
         ELSE Leave(r, EngineFailure(o.exc), o, <<>>)
    /\ UNCHANGED << pure, entry, ddddocr, ocr_instance, ocr_lock, req, img, ocr, acquired,
                    ctor_calls, ctor_failed >>
    /\ UNCHANGED svVars

Next ==
    \/ \E r \in Requests : Start(r)
    \/ \E t \in Threads : LockAcquire(t)
    \/ \E t \in Threads : LockedCheck(t)
    \/ \E t \in Threads : ConstructOk(t)
    \/ \E t \in Threads : ConstructFails(t)
    \/ \E t \in Threads : GetOcrReturn(t)
    \/ \E r \in Requests : Acquire(r)
    \/ \E r \in Requests : CallImg(r)
    \/ \E r \in Requests : CallBytes(r)
    \/ \E r \in Requests : CallImgAgain(r)

Spec == Init /\ [][Next]_vars


(***************************************************************************)
(* server.py: do_POST (lines 146-243) and get_ocr (lines 38-48)            *)
(***************************************************************************)

\* The requests server.py's do_POST is sent: another path, an empty body,
\* a body that is no JSON, a body without the field, a field that is a
\* number, a field that is a string.
ServerInputs ==
    { Req(k, <<>>) : k \in {"wrong_path", "empty_body", "bad_json",
                            "no_field", "number"} }
    \cup { Req("str", s) : s \in RawSamples }

\* except Exception at the end of do_POST
SvOuterExcept(exc) == Fail(500, "internal")

\* The handlers of the inner try: binascii.Error -> 400, anything else ->
\* 500.
SvInnerExcept(exc) ==
    IF exc = "binascii.Error" THEN Fail(400, "invalid_base64")
    ELSE Fail(500, "failed")

\* do_POST on request q up to and including ddddocr.base64_to_image
\* (lines 148-192): the response written there (resp, empty when the
\* handler goes on), the image, and what was done.
SvFront(q) ==
    LET outp(r, p, i, e) ==
            [resp |-> r, pure |-> p, img |-> i, events |-> <<"t0">> \o e]
        out(r, i, e) == outp(r, <<>>, i, e)
    IN  CASE q.kind = "wrong_path" -> out(<<Fail(404, "not_found")>>, <<>>, <<>>)
          [] q.kind = "empty_body" -> out(<<Fail(400, "empty_body")>>, <<>>, <<>>)
          [] q.kind = "bad_json"   -> out(<<Fail(400, "bad_json")>>, <<>>, <<>>)
          [] q.kind = "no_field"   -> out(<<Fail(400, "no_field")>>, <<>>, <<>>)
          [] q.kind = "number"     -> out(<<SvOuterExcept("TypeError")>>, <<>>, <<>>)
          [] OTHER ->
               IF BodyLength(q) > MAX_CONTENT_LENGTH
               THEN out(<<Fail(413, "body_too_large")>>, <<>>, <<>>)
               ELSE IF TooShort(q.raw)
               THEN out(<<Fail(400, "too_short")>>, <<>>, <<"validate">>)
               ELSE LET p == server_validate_base64(q.raw)
                        d == base64_to_image(p)
                        e == <<"validate", "decode">> \o d.events
                    IN  IF d.kind = "image"
                        THEN outp(<<>>, p, d.data, e)
                        ELSE outp(<<SvInnerExcept(d.exc)>>, p, <<>>, e)

\* SvFront, tabulated over the inputs.
SvFrontOf == [q \in ServerInputs |-> SvFront(q)]

\* A server that takes a request while do_POST is still running for the
\* one before (ThreadingHTTPServer for HTTPServer).
SvAccepting_Always == TRUE

\* The server is free to take the next request: serve_forever handles one
\* request after the other.
SvAccepting == sv_pc = "idle"

\* A request comes in and do_POST runs up to the image.
SvReceive ==
    /\ entry = "server.py"
    /\ SvAccepting
    /\ sv_served < MaxServed
    /\ \E q \in ServerInputs :
         LET f == SvFrontOf[q]
         IN  /\ sv_req' = q
             /\ sv_resp' = f.resp
             /\ sv_result' = NoResult
             /\ sv_pure' = f.pure
             /\ sv_img' = f.img
             /\ sv_trace' = f.events
             /\ sv_pc' = IF f.resp = <<>> THEN "get_ocr" ELSE "idle"
    /\ sv_served' = sv_served + 1
    /\ UNCHANGED << sv_instance, sv_ctor_calls, sv_ctor_failed >>
    /\ UNCHANGED appVars

\* get_ocr returns the instance there is.
SvGetOcrReuse ==
    /\ entry = "server.py"
    /\ sv_pc = "get_ocr"
    /\ sv_instance # 0
    /\ sv_pc' = "call_img"
    /\ sv_trace' = sv_trace \o <<"get_ocr", "call:img">>
    /\ UNCHANGED << sv_instance, sv_req, sv_pure, sv_img, sv_result, sv_resp, sv_served,
                    sv_ctor_calls, sv_ctor_failed >>
    /\ UNCHANGED appVars

\* get_ocr finds no instance and ddddocr.DdddOcr() returns one.
SvConstructOk ==
    /\ entry = "server.py"
    /\ sv_pc = "get_ocr"
    /\ sv_instance = 0
    /\ sv_ctor_calls' = sv_ctor_calls + 1
    /\ sv_instance' = sv_ctor_calls + 1
    /\ sv_pc' = "call_img"
    /\ sv_trace' = sv_trace \o <<"get_ocr", "construct", "call:img">>
    /\ UNCHANGED << sv_req, sv_pure, sv_img, sv_result, sv_resp, sv_served,
                    sv_ctor_failed >>
    /\ UNCHANGED appVars

\* get_ocr finds no instance and ddddocr.DdddOcr() raises: get_ocr logs and
\* re-raises, the inner handler answers.
SvConstructFails ==
    /\ entry = "server.py"
    /\ sv_pc = "get_ocr"
    /\ sv_instance = 0
    /\ sv_ctor_failed < MaxCtorFailures
    /\ sv_ctor_calls' = sv_ctor_calls + 1
    /\ sv_ctor_failed' = sv_ctor_failed + 1
    /\ sv_resp' = sv_resp \o <<SvInnerExcept("Exception")>>
    /\ sv_pc' = "idle"
    /\ sv_trace' = sv_trace \o <<"get_ocr", "construct", "get_ocr:raise">>
    /\ UNCHANGED << sv_instance, sv_req, sv_pure, sv_img, sv_result, sv_served >>
    /\ UNCHANGED appVars

\* server.py: ''.join(re.findall(r'[A-Za-z0-9]', result)) and the success
\* response; re.findall raises TypeError on a result that is None.
SvPostProcess(raw_result) ==
    IF raw_result.isNone THEN SvInnerExcept("TypeError")
    ELSE Success(KeepAlnum(raw_result.text))

\* do_POST ends with response answer.
SvFinish(answer, o, events) ==
    /\ sv_resp' = sv_resp \o <<answer>>
    /\ sv_result' = IF o.kind = "return" THEN o.result ELSE sv_result
    /\ sv_trace' = sv_trace \o <<Ended(o)>> \o events
    /\ sv_pc' = "idle"

\* ocr.classification(img=img) ends.
SvCallImg ==
    /\ entry = "server.py"
    /\ sv_pc = "call_img"
    /\ \E o \in EngineOutcomes :
         IF o.kind = "return"
         THEN SvFinish(SvPostProcess(o.result), o, <<"t1", "post">>)
         ELSE IF FallsBack(o.exc)
              THEN /\ sv_pc' = "call_bytes"
                   /\ sv_trace' = sv_trace \o <<Ended(o), "encode_png", "call:img_bytes">>
                   /\ UNCHANGED << sv_resp, sv_result >>
              ELSE SvFinish(SvInnerExcept(o.exc), o, <<>>)
    /\ UNCHANGED << sv_instance, sv_req, sv_pure, sv_img, sv_served, sv_ctor_calls,
                    sv_ctor_failed >>
    /\ UNCHANGED appVars

\* ocr.classification(img_bytes=img_bytes) ends.
SvCallBytes ==
    /\ entry = "server.py"
    /\ sv_pc = "call_bytes"
    /\ \E o \in EngineOutcomes :
         IF o.kind = "return"
         THEN SvFinish(SvPostProcess(o.result), o, <<"t1", "post">>)
         ELSE IF FallsBack(o.exc)
              THEN /\ sv_pc' = "call_img_as_bytes"
                   /\ sv_trace' = sv_trace \o <<Ended(o), "call:img=img_bytes">>
                   /\ UNCHANGED << sv_resp, sv_result >>
              ELSE SvFinish(SvInnerExcept(o.exc), o, <<>>)
    /\ UNCHANGED << sv_instance, sv_req, sv_pure, sv_img, sv_served, sv_ctor_calls,
                    sv_ctor_failed >>
    /\ UNCHANGED appVars

\* ocr.classification(img=img_bytes), of line 211, ends.
SvCallImgAsBytes ==
    /\ entry = "server.py"
    /\ sv_pc = "call_img_as_bytes"
    /\ \E o \in EngineOutcomes :
         IF o.kind = "return"
         THEN SvFinish(SvPostProcess(o.result), o, <<"t1", "post">>)
         ELSE SvFinish(SvInnerExcept(o.exc), o, <<>>)
    /\ UNCHANGED << sv_instance, sv_req, sv_pure, sv_img, sv_served, sv_ctor_calls,
                    sv_ctor_failed >>
    /\ UNCHANGED appVars

\* server.py alone.
InitSv ==
    /\ InitProcess
    /\ InitServer
    /\ InitSvPipe

SvNext ==
    \/ SvReceive
    \/ SvGetOcrReuse
    \/ SvConstructOk
    \/ SvConstructFails
    \/ SvCallImg
    \/ SvCallBytes
    \/ SvCallImgAsBytes

SpecServer == InitSv /\ [][SvNext]_vars

SpecPipe == InitPipe /\ [][Next \/ SvNext]_vars

\* Everything thread t can do.
ThreadStep(t) ==
    \/ t \in Requests /\ Start(t)
    \/ LockAcquire(t)
    \/ LockedCheck(t)
    \/ ConstructOk(t)
    \/ ConstructFails(t)
    \/ GetOcrReturn(t)
    \/ t \in Requests /\ Acquire(t)
    \/ t \in Requests /\ CallImg(t)
    \/ t \in Requests /\ CallBytes(t)
    \/ t \in Requests /\ CallImgAgain(t)

\* Every thread is scheduled again and again, and every constructor and
\* engine call returns or raises.
Fairness == \A t \in Threads : WF_vars(ThreadStep(t))

FairSpec == Spec /\ Fairness

(***************************************************************************)
(* Properties                                                              *)
(***************************************************************************)

\* The request is inside an engine invocation.
InFlight(r) == pc[r] \in {"call_img", "call_bytes", "call_img_again"}

\* The slots the request holds.
Holding(r) == acquired[r] - released[r]

Has(seq, e) == \E i \in 1..Len(seq) : seq[i] = e

\* C1: at no time are more requests inside an engine invocation than
\* OCR_CONCURRENCY, and a request inside an invocation holds a slot, one of
\* those taken from the semaphore.
C1_BoundedInvocations ==
    /\ Cardinality({r \in Requests : InFlight(r)}) <= OCR_CONCURRENCY
    /\ \A r \in Requests : InFlight(r) => Holding(r) = 1
    /\ Cardinality({r \in Requests : InFlight(r)})
         <= OCR_CONCURRENCY - ocr_semaphore

\* Every slot is taken and a further request waits for one.
C1_Witness ==
    /\ Cardinality({r \in Requests : InFlight(r)}) = OCR_CONCURRENCY
    /\ \E r \in Requests : pc[r] = "wait_sem"

\* C2: every execution of the constructor but the first follows one that
\* failed, so without a failure the constructor runs at most once; no two
\* threads are ever inside it together.
C2_SingleConstruction ==
    /\ ctor_calls <= ctor_failed + 1
    /\ ctor_failed = 0 => ctor_calls <= 1
    /\ Cardinality({t \in Threads : pc[t] = "constructing"}) <= 1

\* A thread is inside the constructor, a second has called get_ocr and
\* stands at the lock, and the others are past it neither.
C2_Witness ==
    \E t, u \in Threads :
      /\ t # u
      /\ pc[t] = "constructing"
      /\ pc[u] = "get_ocr"
      /\ \A v \in Threads : ocr[v] = 0

\* C3: a request holds one slot while it is in the guarded region and none
\* outside it (each acquire is matched by one release on the way out,
\* whatever the engine did), free slots and slots in use add up to
\* OCR_CONCURRENCY, and when all requests are done every slot is free.
C3_SlotsBalanced ==
    /\ \A r \in Requests :
         /\ acquired[r] <= 1
         /\ Holding(r) = IF InFlight(r) THEN 1 ELSE 0
    /\ ocr_semaphore + Cardinality({r \in Requests : InFlight(r)})
         = OCR_CONCURRENCY
    /\ ocr_semaphore <= OCR_CONCURRENCY
    /\ (\A r \in Requests : pc[r] = "done") => ocr_semaphore = OCR_CONCURRENCY

\* All requests are done; one left the region on success, one through the
\* failure of a fallback call.
C3_Witness ==
    /\ \A r \in Requests : pc[r] = "done"
    /\ \E r \in Requests :
         /\ released[r] = 1
         /\ resp[r][1].success
    /\ \E r \in Requests :
         /\ released[r] = 1
         /\ Has(trace[r], "call:img_bytes")
         /\ resp[r][1].msg = "engine"

\* The thread has returned from get_ocr.
Returned(t) == Has(trace[t], "get_ocr:return")

\* C4: a thread that has returned from get_ocr holds a constructed handle,
\* the one every other returned thread holds; while a thread is inside the
\* constructor no other thread is inside the lock or between the lock and
\* its return.
C4_ReturnsConstructed ==
    /\ \A t \in Threads : Returned(t) => ocr[t] # 0
    /\ \A t, u \in Threads : Returned(t) /\ Returned(u) => ocr[t] = ocr[u]
    /\ \A t, u \in Threads :
         pc[t] = "constructing" /\ u # t
           => pc[u] \notin {"locked", "constructing", "return"}

\* Two threads have returned from get_ocr, one of which constructed.
C4_Witness ==
    \E t, u \in Threads :
      /\ t # u
      /\ Returned(t) /\ Returned(u)
      /\ Has(trace[t], "construct")
      /\ ~Has(trace[u], "construct")

\* C5: a request waiting for a slot has not been answered (it is not turned
\* away), every request that waits for a slot gets one, and in the end
\* every thread is done.
C5_WaitersProceed ==
    /\ [](\A r \in Requests : pc[r] = "wait_sem" => resp[r] = <<>>)
    /\ \A r \in Requests : (pc[r] = "wait_sem") ~> (acquired[r] = 1)
    /\ <>[](\A t \in Threads : pc[t] = "done")

\* A request waits while no slot is free.
C5_Witness ==
    \E r \in Requests :
      /\ pc[r] = "wait_sem"
      /\ ocr_semaphore = 0
      /\ resp[r] = <<>>

\* The request is a recognition request (a POST), not a preflight.
Recognition(r) == req[r].kind # "options"

\* server.py has answered the request it took last.
SvDone == entry = "server.py" /\ sv_served > 0 /\ sv_pc = "idle"

\* A structured outcome: the success body with code 200, or a failure body
\* with an error code and a message.
Structured(a) ==
    /\ a.body = "json"
    /\ \/ a.success /\ a.code = 200
       \/ ~a.success /\ a.code \in {400, 404, 413, 500} /\ a.msg # ""

\* C6: a recognition request that has ended has produced exactly one
\* response, a structured one, and one that has not ended has produced
\* none; in app.py and in server.py.
C6_OneStructuredOutcome ==
    /\ \A r \in Requests :
         Recognition(r) =>
           IF pc[r] = "done"
           THEN Len(resp[r]) = 1 /\ Structured(resp[r][1])
           ELSE resp[r] = <<>>
    /\ (entry = "server.py" /\ sv_served > 0) =>
           IF sv_pc = "idle"
           THEN Len(sv_resp) = 1 /\ Structured(sv_resp[1])
           ELSE sv_resp = <<>>

\* A request whose field is a number has ended: len() raised inside the
\* validation and the last handler of recognize answered.
C6_Witness ==
    \E r \in Requests :
      /\ req[r].kind = "number"
      /\ pc[r] = "done"
      /\ resp[r] = <<Fail(500, "internal")>>

\* What a request does when the length guard turns it away, and nothing
\* more: the start timestamp and the validation.
OnlyValidated == <<"t0", "validate">>

\* C7: a string of fewer than 10 characters, as sent, is answered 400 by
\* the length guard with no decoding, no get_ocr and no slot; a string of
\* 10 or more characters is not answered by the length guard, and decoding
\* follows its validation; in app.py and in server.py.
C7_ShortRejectedEarly ==
    /\ \A r \in Requests :
         (req[r].kind = "str" /\ pc[r] # "start") =>
           IF Len(req[r].raw) < 10
           THEN /\ pc[r] = "done"
                /\ resp[r] = <<Fail(400, "too_short")>>
                /\ trace[r] = OnlyValidated
                /\ acquired[r] = 0
           ELSE /\ resp[r] # <<>> => resp[r][1].msg # "too_short"
                /\ Has(trace[r], "validate") => Has(trace[r], "decode")
    /\ (entry = "server.py" /\ sv_req.kind = "str") =>
           IF Len(sv_req.raw) < 10
           THEN /\ sv_pc = "idle"
                /\ sv_resp = <<Fail(400, "too_short")>>
                /\ sv_trace = OnlyValidated
           ELSE /\ sv_resp # <<>> => sv_resp[1].msg # "too_short"
                /\ Has(sv_trace, "validate") => Has(sv_trace, "decode")

\* A request with a string of 9 characters has ended.
C7_Witness ==
    \E r \in Requests :
      /\ req[r] = Req("str", Png(9))
      /\ pc[r] = "done"

\* The payload of raw decodes, and to a buffer larger than the maximum.
Oversize(raw) ==
    LET d == b64decode(validate_base64(raw))
    IN  d.ok /\ Len(d.bytes) > MAX_CONTENT_LENGTH

\* The payload of raw is no valid base64.
InvalidBase64(raw) == ~b64decode(validate_base64(raw)).ok

\* The payload of raw decodes to a buffer of allowed size that is no raster
\* image.
NotRaster(raw) ==
    LET d == b64decode(validate_base64(raw))
    IN  d.ok /\ Len(d.bytes) <= MAX_CONTENT_LENGTH /\ ~IsRaster(d.bytes)

\* C8: a request of app.py whose payload decodes to more than
\* MAX_CONTENT_LENGTH bytes leaves the decoder with the payload-too-large
\* error, and no image parse was started on it, on the fast path or on the
\* fallback.
C8_OversizeRejectedUnparsed ==
    \A r \in Requests :
      (req[r].kind = "str" /\ Has(trace[r], "decode") /\ Oversize(req[r].raw)) =>
        /\ resp[r] = <<Fail(400, "too_large")>>
        /\ ~Has(trace[r], "parse")
        /\ ~Has(trace[r], "fast:parse")

\* C9: a request that has ended and whose payload decodes to more than
\* MAX_CONTENT_LENGTH bytes was answered with the failure code 413; in
\* app.py and in server.py.
C9_OversizeIs413 ==
    /\ \A r \in Requests :
         (req[r].kind = "str" /\ pc[r] = "done" /\ Oversize(req[r].raw)) =>
           ~resp[r][1].success /\ resp[r][1].code = 413
    /\ (SvDone /\ sv_req.kind = "str" /\ Oversize(sv_req.raw)) =>
           ~sv_resp[1].success /\ sv_resp[1].code = 413

\* C10: a request that failed in decoding because its payload is no valid
\* base64 or no raster image was answered 400, a request that failed
\* because get_ocr raised or in the engine calls was answered 500; in app.py
\* and in server.py.
C10_ErrorCodes ==
    /\ \A r \in Requests :
         (req[r].kind = "str" /\ pc[r] = "done" /\ ~resp[r][1].success) =>
           /\ (Has(trace[r], "decode") /\ InvalidBase64(req[r].raw))
                => resp[r][1].code = 400
           /\ (Has(trace[r], "decode") /\ NotRaster(req[r].raw))
                => resp[r][1].code = 400
           /\ Has(trace[r], "get_ocr:raise") => resp[r][1].code = 500
           /\ Has(trace[r], "call:img") => resp[r][1].code = 500
    /\ (SvDone /\ sv_req.kind = "str" /\ ~sv_resp[1].success) =>
           /\ (Has(sv_trace, "decode") /\ InvalidBase64(sv_req.raw))
                => sv_resp[1].code = 400
           /\ (Has(sv_trace, "decode") /\ NotRaster(sv_req.raw))
                => sv_resp[1].code = 400
           /\ Has(sv_trace, "get_ocr:raise") => sv_resp[1].code = 500
           /\ Has(sv_trace, "call:img") => sv_resp[1].code = 500

\* What holds of get_ocr's state at any time: the lock is held only by a
\* thread inside the block, a thread get_ocr raised to holds no handle, and
\* the engine exists exactly when the last construction attempt succeeded;
\* in app.py and in server.py.
C11_State ==
    /\ \A t \in ocr_lock : pc[t] \in {"locked", "constructing"}
    /\ \A t \in Threads :
         Has(trace[t], "get_ocr:raise") => pc[t] = "done" /\ ocr[t] = 0
    /\ ocr_instance # 0 => ctor_calls = ctor_failed + 1
    /\ (ocr_instance = 0 /\ \A t \in Threads : pc[t] # "constructing")
         => ctor_calls = ctor_failed
    /\ sv_instance # 0 => sv_ctor_calls = sv_ctor_failed + 1
    /\ sv_instance = 0 => sv_ctor_calls = sv_ctor_failed

\* What holds of every step: a failing construction leaves the engine
\* unconstructed and the lock free, and raises to the caller; a thread that
\* finds the engine unconstructed inside the lock attempts construction
\* (ddddocr being there); once the engine is constructed it stays, and no
\* construction is attempted again.
C11_Step ==
    /\ ctor_failed' > ctor_failed =>
         /\ ocr_instance' = 0
         /\ ocr_lock' = {}
         /\ \E t \in Threads :
              pc[t] = "constructing" /\ Has(trace'[t], "get_ocr:raise")
    /\ \A t \in Threads :
         (pc[t] = "locked" /\ pc'[t] # "locked"
            /\ ocr_instance = 0 /\ ddddocr # "missing")
           => pc'[t] = "constructing" /\ ctor_calls' = ctor_calls + 1
    /\ ocr_instance # 0 =>
         ocr_instance' = ocr_instance /\ ctor_calls' = ctor_calls
    /\ sv_ctor_failed' > sv_ctor_failed =>
         /\ sv_instance' = 0
         /\ Has(sv_trace', "get_ocr:raise")
    /\ sv_instance # 0 =>
         sv_instance' = sv_instance /\ sv_ctor_calls' = sv_ctor_calls

\* C11: a construction attempt of get_ocr that fails raises to its caller,
\* frees the lock and leaves the engine unconstructed, so a later call
\* attempts construction again; after a successful construction none is
\* attempted; the lock is never left held by a thread that is out of the
\* block, so waiting threads can go on.
C11_FailedConstructionRetried == []C11_State /\ [][C11_Step]_vars

\* A construction failed and raised to its caller, and a later call
\* constructed the engine while the first thread is done.
C11_Witness ==
    /\ ctor_failed = 1
    /\ ctor_calls = 2
    /\ ocr_instance # 0
    /\ ocr_lock = {}
    /\ \E t \in Threads : Has(trace[t], "get_ocr:raise")

\* The trace events that are engine invocations: the image-object form, the
\* byte-stream form, and server.py's byte stream under the img parameter.
CallEvents == {"call:img", "call:img_bytes", "call:img=img_bytes"}

\* The positions of tr that are engine invocations.
Calls(tr) == { i \in 1..Len(tr) : tr[i] \in CallEvents }

\* Position i is the first engine invocation of tr.
FirstCall(tr, i) == i \in Calls(tr) /\ \A j \in Calls(tr) : i <= j

\* The order of the invocations in trace tr of a request with responses rs:
\* the first is the image-object form; a byte-stream invocation follows that
\* first one, its TypeError and the PNG encoding directly; after a first
\* invocation that returned, or raised something else, there is no further
\* invocation, and what else it raised is answered 500.
FallbackOrder(tr, rs) ==
    \A i \in Calls(tr) :
      /\ FirstCall(tr, i) => tr[i] = "call:img"
      /\ tr[i] = "call:img_bytes" =>
           /\ i > 3
           /\ FirstCall(tr, i - 3)
           /\ tr[i - 2] = "TypeError"
           /\ tr[i - 1] = "encode_png"
      /\ (FirstCall(tr, i) /\ i < Len(tr) /\ tr[i + 1] # "TypeError") =>
           /\ Calls(tr) = {i}
           /\ tr[i + 1] # "returned" =>
                rs # <<>> /\ ~rs[1].success /\ rs[1].code = 500

\* C12: in every request that reaches the engine, in app.py and in
\* server.py, the first invocation is the image-object form, the byte-stream
\* form is tried only directly after a TypeError of that first invocation,
\* any other failure of the first invocation is answered 500 with no further
\* invocation, and a first invocation that returned is the only one.
C12_ObjectFormFirst ==
    /\ \A r \in Requests : FallbackOrder(trace[r], resp[r])
    /\ FallbackOrder(sv_trace, sv_resp)

\* A request whose first invocation raised TypeError is inside the
\* byte-stream invocation.
C12_Witness ==
    \E r \in Requests :
      /\ pc[r] = "call_bytes"
      /\ Has(trace[r], "TypeError")
      /\ Has(trace[r], "call:img_bytes")

\* The characters of a raw engine result: none when it is null.
RawText(x) == IF x.isNone THEN <<>> ELSE x.text

\* Response a is the success outcome for the raw engine result x: its text
\* is the subsequence of x's characters that are ASCII letters or digits,
\* its length field the length of that text.
FilteredOutcome(a, x) ==
    /\ a.success
    /\ a.captcha = SelectSeq(RawText(x), IsAlnum)
    /\ a.length = Len(a.captcha)

\* C13: a request whose engine invocation returned a raw result (null and
\* empty included) is answered with the ASCII letters and digits of that
\* result, in order, and their number; in app.py and in server.py.
C13_AlnumSubsequence ==
    /\ \A r \in Requests :
         (pc[r] = "done" /\ Has(trace[r], "returned")) =>
           Len(resp[r]) = 1 /\ FilteredOutcome(resp[r][1], result[r])
    /\ (SvDone /\ Has(sv_trace, "returned")) =>
           Len(sv_resp) = 1 /\ FilteredOutcome(sv_resp[1], sv_result)

\* The part of C13 that is about app.py.
C13_AppOnly ==
    \A r \in Requests :
      (pc[r] = "done" /\ Has(trace[r], "returned")) =>
        Len(resp[r]) = 1 /\ FilteredOutcome(resp[r][1], result[r])

\* The string holds a comma.
HasComma(s) == \E i \in 1..Len(s) : s[i] = ","

\* What follows the first comma of s, s holding one: the payload p of
\* s = h + "," + p with no comma in h.
AfterFirstComma(s) ==
    LET k == CHOOSE i \in 1..Len(s) : s[i] = "," /\ ~HasComma(SubSeq(s, 1, i - 1))
    IN  SubSeq(s, k + 1, Len(s))

\* The number of commas of s.
Commas(s) == Cardinality({ i \in 1..Len(s) : s[i] = "," })

\* x with as many '=' appended as make its length a multiple of 4.
PadTo4(x) == x \o [i \in 1..((4 - (Len(x) % 4)) % 4) |-> "="]

\* The request has been through validate_base64.
Validated(r) == Has(trace[r], "decode")

SvValidated == entry = "server.py" /\ Has(sv_trace, "decode")

\* validate_base64(h + "," + p) = validate_base64(p) for whatever follows
\* the first comma, in app.py and in server.py.
C14_HeaderEquation ==
    /\ \A r \in Requests :
         (Validated(r) /\ HasComma(req[r].raw)) =>
           pure[r] = validate_base64(AfterFirstComma(req[r].raw))
    /\ (SvValidated /\ HasComma(sv_req.raw)) =>
           sv_pure = server_validate_base64(AfterFirstComma(sv_req.raw))

\* What validate_base64 makes of an input h + "," + p, p what follows the
\* first comma: p without the blanks at its end, padded; which is
\* validate_base64(p) when p holds no comma and starts with no blank; the
\* commas of p stay.
HeaderStripped(out, p, validated_p) ==
    /\ out = PadTo4(rstrip(p))
    /\ (~HasComma(p) /\ lstrip(p) = p) => out = validated_p
    /\ Commas(out) = Commas(p)

\* C14: for an input h + "," + p with no comma in h, validate_base64
\* returns the padded payload that follows the first comma, later commas
\* kept; that is validate_base64(p) for every p that holds no comma and
\* starts with no blank; in app.py and in server.py.
C14_FirstCommaSeparates ==
    /\ \A r \in Requests :
         (Validated(r) /\ HasComma(req[r].raw)) =>
           HeaderStripped(pure[r], AfterFirstComma(req[r].raw),
                          validate_base64(AfterFirstComma(req[r].raw)))
    /\ (SvValidated /\ HasComma(sv_req.raw)) =>
           HeaderStripped(sv_pure, AfterFirstComma(sv_req.raw),
                          server_validate_base64(AfterFirstComma(sv_req.raw)))

\* A request with a header and a payload that holds a second comma has been
\* through validate_base64.
C14_Witness ==
    \E r \in Requests :
      /\ Validated(r)
      /\ HasComma(req[r].raw)
      /\ HasComma(pure[r])

\* The payload of raw input s: s trimmed, and cut behind its first comma
\* when it holds one.
Payload(s) ==
    IF HasComma(strip(s)) THEN AfterFirstComma(strip(s)) ELSE strip(s)

\* out is the payload of raw with (4 - n % 4) % 4 '=' appended, n the
\* payload's length: its length is a multiple of 4, and it is the payload
\* itself when that is a multiple of 4 long already.
PaddedPayload(out, raw) ==
    LET n == Len(Payload(raw))
    IN  /\ out = Payload(raw) \o [i \in 1..((4 - (n % 4)) % 4) |-> "="]
        /\ Len(out) % 4 = 0
        /\ n % 4 = 0 => out = Payload(raw)

\* C15: validate_base64 returns the payload with exactly (4 - n % 4) % 4
\* '=' appended, a string of a length that is a multiple of 4 and the
\* payload unchanged when n is one; what app.py's validate_base64 returned
\* is what server.py's returns for the same input, and the other way round.
C15_PaddingToMultipleOf4 ==
    /\ \A r \in Requests :
         Validated(r) =>
           /\ PaddedPayload(pure[r], req[r].raw)
           /\ pure[r] = server_validate_base64(req[r].raw)
    /\ SvValidated =>
           /\ PaddedPayload(sv_pure, sv_req.raw)
           /\ sv_pure = validate_base64(sv_req.raw)

\* A payload of 10 characters has been padded with two '='.
C15_Witness ==
    \E r \in Requests :
      /\ Validated(r)
      /\ req[r].raw = Png(10)
      /\ pure[r] = Png(10) \o <<"=", "=">>

\* Both requests carry the same valid input.
SameValidInput ==
    \A r \in Requests : req[r] = Req("str", Png(12))

\* No request is inside a call of recognize: each has ended or not begun.
BetweenCalls == \A r \in Requests : pc[r] \in {"start", "done"}

\* With the same valid input in every request: whenever no call is in
\* progress (after each call) every slot is free, at most one construction
\* has succeeded, and the calls that got the engine got the same handle.
C16_State ==
    SameValidInput =>
      /\ BetweenCalls => ocr_semaphore = OCR_CONCURRENCY
      /\ ctor_calls <= ctor_failed + 1
      /\ \A r, u \in Requests : Returned(r) /\ Returned(u) => ocr[r] = ocr[u]

\* Once a call has ended that got the engine, no later step constructs.
C16_Step ==
    (SameValidInput /\ \E r \in Requests : pc[r] = "done" /\ Returned(r))
      => ctor_calls' = ctor_calls /\ ocr_instance' = ocr_instance

\* C16: recognize called again with the same valid input, after a call
\* that got the engine, constructs nothing and gets the same handle, and
\* after each call all OCR_CONCURRENCY slots are free.
C16_RepeatedCallReuses == []C16_State /\ [][C16_Step]_vars

\* Two calls with the same valid input have ended in success, one
\* construction was made in all, and every slot is free.
C16_Witness ==
    /\ SameValidInput
    /\ \A r \in Requests : pc[r] = "done" /\ resp[r][1].success
    /\ ctor_calls = 1
    /\ ocr_semaphore = OCR_CONCURRENCY

\* The positions of event e in trace tr.
At(tr, e) == { i \in 1..Len(tr) : tr[i] = e }

\* C17: in every request of app.py the start timestamp is the first thing
\* taken, once, before decoding and before the slot is asked for, and the
\* end timestamp is taken after the slot, once acquired, has been released.
C17_TimingCoversAdmission ==
    \A r \in Requests :
      /\ trace[r] # <<>> => At(trace[r], "t0") = {1}
      /\ \A i \in At(trace[r], "decode") \cup At(trace[r], "acquire") : i > 1
      /\ pc[r] = "wait_sem" => Has(trace[r], "t0") /\ ~Has(trace[r], "t1")
      /\ \A i \in At(trace[r], "t1") :
           \E j \in At(trace[r], "release") :
             /\ j < i
             /\ \E k \in At(trace[r], "acquire") : k < j

\* Two requests have been through the guarded region and have taken their
\* end timestamps.
C17_Witness ==
    \E r, u \in Requests :
      /\ r # u
      /\ pc[r] = "done" /\ Has(trace[r], "t1")
      /\ pc[u] = "done" /\ Has(trace[u], "t1")

\* The place of a trace event in the pipeline: validate, decode, get the
\* engine, acquire a slot, invoke the engine, release the slot,
\* post-process; 0 for the events that are no step of their own.
StepOf(e) ==
    CASE e = "validate" -> 1
      [] e = "decode"   -> 2
      [] e = "get_ocr"  -> 3
      [] e = "acquire"  -> 4
      [] e \in CallEvents -> 5
      [] e = "release"  -> 6
      [] e = "post"     -> 7
      [] OTHER          -> 0

\* The steps of tr come in the pipeline's order, each once; the invocation
\* step alone may hold several calls (the call forms of the fallback).
InOrder(tr) ==
    \A i, j \in 1..Len(tr) :
      (i < j /\ StepOf(tr[i]) > 0 /\ StepOf(tr[j]) > 0) =>
        \/ StepOf(tr[i]) < StepOf(tr[j])
        \/ StepOf(tr[i]) = 5 /\ StepOf(tr[j]) = 5

\* The highest step of tr.
LastStep(tr) ==
    IF \E i \in 1..Len(tr) : StepOf(tr[i]) > 0
    THEN CHOOSE n \in 1..7 :
           /\ \E i \in 1..Len(tr) : StepOf(tr[i]) = n
           /\ \A i \in 1..Len(tr) : StepOf(tr[i]) <= n
    ELSE 0

\* The step at which a failure answered with message m was raised.
FailedAt(m) ==
    CASE m = "too_short" -> 1
      [] m \in {"invalid_base64", "too_large", "unsupported_format",
                "decode_failed"} -> 2
      [] m = "ocr_init" -> 3
      [] m = "engine" -> 6
      [] OTHER -> 0

\* What holds of every state: the steps of every request are in order; a
\* request that failed at a step made no later step; one that failed in
\* validation or decoding entered no constructor and holds no slot, and one
\* whose get_ocr raised acquired no slot; in app.py and in server.py.
C18_State ==
    /\ \A r \in Requests :
         /\ InOrder(trace[r])
         /\ (resp[r] # <<>> /\ FailedAt(resp[r][1].msg) > 0) =>
              LastStep(trace[r]) = FailedAt(resp[r][1].msg)
         /\ (resp[r] # <<>> /\ FailedAt(resp[r][1].msg) \in {1, 2}) =>
              ~Has(trace[r], "construct") /\ acquired[r] = 0
         /\ Has(trace[r], "get_ocr:raise") =>
              acquired[r] = 0 /\ ~Has(trace[r], "acquire")
    /\ InOrder(sv_trace)
    /\ (sv_resp # <<>> /\ sv_resp[1].msg \in {"too_short", "invalid_base64"}) =>
         ~Has(sv_trace, "get_ocr") /\ ~Has(sv_trace, "construct")
    /\ (sv_resp # <<>> /\ ~sv_resp[1].success) => sv_pc = "idle"
    /\ Has(sv_trace, "get_ocr:raise") => Calls(sv_trace) = {}

\* What holds of every step: a request that has been answered does nothing
\* more.
C18_Step ==
    /\ \A r \in Requests :
         resp[r] # <<>> => (trace'[r] = trace[r] /\ resp'[r] = resp[r]
                             /\ acquired'[r] = acquired[r])
    /\ (sv_resp # <<>> /\ sv_served' = sv_served) =>
         (sv_trace' = sv_trace /\ sv_resp' = sv_resp)

\* C18: the steps of a request come in the order validate, decode, get the
\* engine, acquire, invoke, release, post-process, and a failure ends the
\* request: no later step is made and none again; a request that fails in
\* validation or decoding constructs nothing and acquires nothing, and one
\* whose get_ocr fails acquires nothing.
C18_LinearPipeline == []C18_State /\ [][C18_Step]_vars

\* A request whose get_ocr raised has ended, with no slot acquired.
C18_Witness ==
    \E r \in Requests :
      /\ pc[r] = "done"
      /\ Has(trace[r], "get_ocr:raise")
      /\ resp[r] = <<Fail(500, "ocr_init")>>
      /\ acquired[r] = 0

\* Trace tr holds at most two invocations, and a byte-stream invocation that
\* raised is followed by none.
AtMostTwoCalls(tr) ==
    /\ Cardinality(Calls(tr)) <= 2
    /\ \A i \in At(tr, "call:img_bytes") : \A j \in Calls(tr) : j <= i

\* C19: a request invokes the engine at most twice, in the image-object
\* form and then in the byte-stream form, and no invocation follows the
\* byte-stream one; in app.py and in server.py.
C19_AtMostTwoInvocations ==
    /\ \A r \in Requests : AtMostTwoCalls(trace[r])
    /\ AtMostTwoCalls(sv_trace)

\* The decoder's fast path did not hand back an image for payload p in
\* trace tr: it was not there, or it raised.
FastPathFailed(tr, p) ==
    ~(Has(tr, "fast:parse") /\ b64decode(p).ok /\ IsRaster(b64decode(p).bytes))

\* The decoding of payload p, in a request with trace tr and responses rs,
\* went through the fallback after the fast path failed: base64 decode,
\* size check, image parse, with the error of the first step that failed,
\* and with no error when none failed.
FellThrough(tr, rs, p) ==
    LET d == b64decode(p)
        DecodeMessages == {"invalid_base64", "too_large", "unsupported_format",
                           "decode_failed", "failed"}
    IN  FastPathFailed(tr, p) =>
          /\ Has(tr, "b64decode")
          /\ ~d.ok => rs = <<Fail(400, "invalid_base64")>>
          /\ (d.ok /\ Len(d.bytes) > MAX_CONTENT_LENGTH) =>
               /\ rs = <<Fail(400, "too_large")>>
               /\ ~Has(tr, "parse")
          /\ (d.ok /\ Len(d.bytes) <= MAX_CONTENT_LENGTH /\ ~IsRaster(d.bytes)) =>
               /\ rs = <<Fail(400, "unsupported_format")>>
               /\ Has(tr, "parse")
          /\ (d.ok /\ Len(d.bytes) <= MAX_CONTENT_LENGTH /\ IsRaster(d.bytes)) =>
               /\ Has(tr, "parse")
               /\ rs # <<>> => rs[1].msg \notin DecodeMessages

\* C20: when the decoder's fast path is not there or raises, the decoding
\* goes on to the fallback (base64 decode, size check, image parse) and the
\* request fails with the error of the first fallback step that fails, or
\* not at all; in app.py and in server.py.
C20_FastPathFallsThrough ==
    /\ \A r \in Requests :
         Validated(r) => FellThrough(trace[r], resp[r], pure[r])
    /\ SvValidated => FellThrough(sv_trace, sv_resp, sv_pure)

\* The part of C20 that is about app.py's decode_base64_to_image.
C20_AppOnly ==
    \A r \in Requests :
      Validated(r) => FellThrough(trace[r], resp[r], pure[r])

\* The prewarm thread is inside the with block of get_ocr.
PrewarmInBlock == pc[Prewarm] \in {"locked", "constructing"}

\* The prewarm thread's own construction succeeded.
PrewarmConstructed ==
    /\ Has(trace[Prewarm], "construct")
    /\ pc[Prewarm] = "return" \/ Has(trace[Prewarm], "get_ocr:return")

\* The prewarm thread ended on an exception out of get_ocr.
PrewarmFailed == pc[Prewarm] = "done" /\ Has(trace[Prewarm], "get_ocr:raise")

\* What holds of every state of app.py: a request is taken in whatever the
\* prewarm thread is doing; while the prewarm thread is inside the block no
\* request is, and a request at get_ocr cannot enter; once the prewarm
\* thread has constructed the engine, every request that came back from
\* get_ocr holds the prewarmed handle and constructed nothing; a failed
\* prewarm holds no lock, and requests go on entering get_ocr.
C21_State ==
    /\ \A r \in Requests : pc[r] = "start" => ENABLED Start(r)
    /\ PrewarmInBlock =>
         \A r \in Requests :
           /\ pc[r] \notin {"locked", "constructing"}
           /\ pc[r] = "get_ocr" => ~ENABLED LockAcquire(r)
    /\ PrewarmConstructed =>
         /\ ocr_instance # 0
         /\ \A r \in Requests :
              Has(trace[r], "get_ocr:return") =>
                /\ ocr[r] = ocr_instance
                /\ ~Has(trace[r], "construct")
         /\ Has(trace[Prewarm], "get_ocr:return") => ocr[Prewarm] = ocr_instance
    /\ PrewarmFailed =>
         /\ Prewarm \notin ocr_lock
         /\ ocr[Prewarm] = 0
         /\ \A r \in Requests :
              (pc[r] = "get_ocr" /\ ocr_lock = {}) => ENABLED LockAcquire(r)

\* What holds of every step: the step in which the prewarm thread fails
\* leaves the engine unconstructed and the lock free, answers nothing and
\* moves no request; a request that then finds the engine unconstructed
\* inside the block attempts construction itself; a constructed engine is
\* never constructed again.
C21_Step ==
    /\ (pc[Prewarm] # "done" /\ pc'[Prewarm] = "done"
          /\ Has(trace'[Prewarm], "get_ocr:raise")) =>
         /\ ocr_instance' = 0
         /\ ocr_lock' = {}
         /\ resp' = resp
         /\ \A r \in Requests : pc'[r] = pc[r]
    /\ \A r \in Requests :
         (PrewarmFailed /\ pc[r] = "locked" /\ pc'[r] # "locked"
            /\ ocr_instance = 0 /\ ddddocr # "missing")
           => pc'[r] = "constructing" /\ ctor_calls' = ctor_calls + 1
    /\ ocr_instance # 0 =>
         ocr_instance' = ocr_instance /\ ctor_calls' = ctor_calls

\* C21: the prewarm thread constructs the engine beside the requests, which
\* are taken in without waiting for it; a request that reaches get_ocr
\* while the prewarm thread is inside blocks, and then uses the prewarmed
\* handle without constructing a second one; a prewarm failure is swallowed
\* and leaves the engine unconstructed, so that the next request attempts
\* the construction itself.
C21_PrewarmBesideRequests == []C21_State /\ [][C21_Step]_vars

\* A request has passed the validation and waits at get_ocr, which it
\* cannot enter, while the prewarm thread is constructing.
C21_Witness ==
    /\ pc[Prewarm] = "constructing"
    /\ \E r \in Requests : pc[r] = "get_ocr" /\ ~ENABLED LockAcquire(r)

\* The thread is inside the with block of get_ocr.
HoldsLock(t) == t \in ocr_lock

\* The request stands at `with _ocr_semaphore` and no slot is free.
WaitsForSlot(r) == pc[r] = "wait_sem" /\ ~SemAcquirable

\* The thread stands at `with _ocr_lock` and another thread is inside.
WaitsForLock(t) == pc[t] = "get_ocr" /\ ~LockAcquirable

\* What holds of every state of app.py: a thread inside the lock block
\* neither stands at the semaphore nor holds a slot, so a construction
\* occupies no slot; a request holds at most one slot and does not stand at
\* the semaphore while it holds one; whoever holds the lock or a slot can
\* take its next step, so no thread waits for a thread that waits.
C22_State ==
    /\ \A t \in Threads :
         HoldsLock(t) =>
           /\ pc[t] \in {"locked", "constructing"}
           /\ t \in Requests => Holding(t) = 0
           /\ ENABLED ThreadStep(t)
    /\ \A r \in Requests :
         /\ Holding(r) \in {0, 1}
         /\ Holding(r) = 1 =>
              /\ pc[r] \in {"call_img", "call_bytes", "call_img_again"}
              /\ ENABLED ThreadStep(r)
         /\ pc[r] = "wait_sem" => Holding(r) = 0
    /\ (\E t \in Threads : pc[t] \in {"locked", "constructing"}) =>
         ocr_semaphore =
           OCR_CONCURRENCY
             - Cardinality({ r \in Requests :
                   pc[r] \in {"call_img", "call_bytes", "call_img_again"} })
    /\ \A t \in Threads : WaitsForLock(t) => \E u \in Threads \ {t} : HoldsLock(u)
    /\ \A r \in Requests :
         WaitsForSlot(r) => \E u \in Requests \ {r} : Holding(u) = 1

\* What holds of every step: a slot is acquired only by a request that
\* holds none and is outside the lock block, and the lock is taken only by
\* a thread that holds no slot.
C22_Step ==
    /\ \A r \in Requests :
         acquired'[r] > acquired[r] => Holding(r) = 0 /\ ~HoldsLock(r)
    /\ \A t \in Threads :
         (HoldsLock(t)' /\ ~HoldsLock(t)) =>
           (t \in Requests => Holding(t) = 0 /\ pc[t] # "wait_sem")

\* C22: in app.py no thread holds _ocr_lock while it waits for or holds an
\* admission slot, and no request acquires a second slot while it holds
\* one; the holders of the lock and of the slots can always go on, so the
\* two cannot form a wait cycle, and an engine construction never occupies
\* an admission slot.
C22_LockAndSlotsApart == []C22_State /\ [][C22_Step]_vars

\* One thread is inside the lock block while a request holds the only slot
\* and another request waits for it.
C22_Witness ==
    \E t \in Threads, r, w \in Requests :
      /\ HoldsLock(t)
      /\ Holding(r) = 1
      /\ WaitsForSlot(w)

\* How the calls of the engine end, as the trace records them.
EndEvents == {"returned", "TypeError", "Exception"}

\* The engine invocations of tr that have begun and not ended.
OpenCalls(tr) ==
    Cardinality(Calls(tr)) - Cardinality({ i \in 1..Len(tr) : tr[i] \in EndEvents })

\* do_POST is inside get_ocr or an engine call for the request in hand.
SvBusy == sv_pc # "idle"

\* What holds of every state of server.py: there is one successful
\* construction at most, and none while the instance is there; an engine
\* invocation is in flight exactly when do_POST stands in a call, and then
\* there is one; a request whose handler is running is not answered yet.
C23_State ==
    entry = "server.py" =>
      /\ sv_instance # 0 => sv_ctor_calls = sv_ctor_failed + 1
      /\ sv_instance = 0 => sv_ctor_calls = sv_ctor_failed
      /\ OpenCalls(sv_trace) \in {0, 1}
      /\ OpenCalls(sv_trace) = 1
           <=> sv_pc \in {"call_img", "call_bytes", "call_img_as_bytes"}
      /\ SvBusy => sv_resp = <<>>

\* What holds of every step of server.py: a request is taken in only when
\* the handler of the one before has returned and answered; get_ocr's
\* check-then-construct runs only for the request in hand, and constructs
\* only when it finds no instance; an instance, once there, stays.
C23_Step ==
    entry = "server.py" =>
      /\ sv_served' > sv_served =>
           /\ ~SvBusy
           /\ sv_served > 0 => Len(sv_resp) = 1
      /\ sv_ctor_calls' > sv_ctor_calls =>
           /\ sv_pc = "get_ocr"
           /\ sv_instance = 0
           /\ sv_ctor_calls' = sv_ctor_calls + 1
           /\ sv_served' = sv_served
      /\ sv_instance # 0 =>
           sv_instance' = sv_instance /\ sv_ctor_calls' = sv_ctor_calls

\* C23: server.py handles its requests strictly one after the other, so
\* two executions of get_ocr's unguarded check-then-construct never
\* overlap, the process constructs the engine successfully once at most,
\* and at most one engine invocation is in flight at any time.
C23_OneRequestAtATime == []C23_State /\ [][C23_Step]_vars

\* The second request is inside an engine call with the instance that the
\* first request constructed.
C23_Witness ==
    /\ entry = "server.py"
    /\ sv_served = 2
    /\ sv_pc = "call_img"
    /\ ~Has(sv_trace, "construct")
    /\ sv_instance # 0
    /\ OpenCalls(sv_trace) = 1

====
